---- MODULE Spec2Model ----
(***************************************************************************)
(* Model of src/sogs/cleanup.py: the periodic database cleanup of sogs.    *)
(*                                                                         *)
(* The store (tables files, message_history, room_users,                   *)
(* user_permission_futures, user_permission_overrides), the upload         *)
(* directory (blobs) and the wall clock are the state.  The maintenance    *)
(* thread is a program counter `pc` over the statements of cleanup(),      *)
(* prune_files(), prune_message_history(), prune_room_activity() and       *)
(* apply_permission_updates().  A function is entered either from          *)
(* cleanup() (ctx = "tick") or by a direct caller (ctx = "direct"), who    *)
(* observes the result at pc = "returned".                                 *)
(*                                                                         *)
(* SQL NULL is the empty set and a value v is {v}, so that a comparison    *)
(* with NULL is never true and COALESCE picks the first non-empty value.   *)
(***************************************************************************)
EXTENDS Integers, FiniteSets, Sequences, TLC

(* ------------------------------ bounds -------------------------------- *)

\* The clock takes MaxClock + 1 consecutive readings.
MaxClock == 2
\* File ids (and so paths) handed out by the upload subsystem.
MaxFiles == 2
\* Rows the messaging subsystem adds to message_history and room_users.
MaxRecords == 2
\* Permission futures the scheduling action adds.
MaxFutures == 2

\* config.MESSAGE_HISTORY_PRUNE_THRESHOLD and config.ROOM_ACTIVE_PRUNE_THRESHOLD,
\* in days (external configuration, any non-negative value).
MESSAGE_HISTORY_PRUNE_THRESHOLD == 1
ROOM_ACTIVE_PRUNE_THRESHOLD == 2

(* ------------------------- program constants -------------------------- *)

\* Seconds per day, the factor of both retention thresholds.
DAY == 86400

(* ------------------------------ domains ------------------------------- *)

\* First reading of the clock: late enough for both retention cutoffs to be
\* positive timestamps.
ClockBase == (MESSAGE_HISTORY_PRUNE_THRESHOLD + ROOM_ACTIVE_PRUNE_THRESHOLD + 1) * DAY
Paths == 1 .. MaxFiles
\* Expiries of the uploads: a second before the first reading of the clock, at
\* it, and a second after it.
ExpiryTimes == (ClockBase - 1) .. (ClockBase + 1)
\* Timestamps of the history and activity rows: a second before the retention
\* cutoff of the first reading of the clock, at it, and a second after it.
HistStamps ==
    (ClockBase - MESSAGE_HISTORY_PRUNE_THRESHOLD * DAY - 1) ..
        (ClockBase - MESSAGE_HISTORY_PRUNE_THRESHOLD * DAY + 1)
ActStamps ==
    (ClockBase - ROOM_ACTIVE_PRUNE_THRESHOLD * DAY - 1) ..
        (ClockBase - ROOM_ACTIVE_PRUNE_THRESHOLD * DAY + 1)
\* Activation times of the futures: due at the first reading of the clock, or at
\* the second.
FutureTimes == {ClockBase, ClockBase + 1}
\* (room, user) keys of room_users and of the permission tables.
RoomUsers == {<<1, 1>>, <<1, 2>>}

NULL == {}
Flag == {NULL, {TRUE}, {FALSE}}
Fields == {"read", "write", "upload", "banned"}

\* Flag values of the futures the scheduling action adds.
FutureRows ==
    { [read |-> NULL, write |-> {FALSE}, upload |-> NULL, banned |-> {TRUE}],
      [read |-> {FALSE}, write |-> {TRUE}, upload |-> {TRUE}, banned |-> NULL] }

\* Flag values of the live overrides set by moderators.
OverrideRows ==
    { [read |-> {TRUE}, write |-> NULL, upload |-> NULL, banned |-> NULL],
      [read |-> {FALSE}, write |-> {TRUE}, upload |-> {FALSE}, banned |-> {FALSE}] }

VARIABLES
    clock,          \* time.time()
    next_id,        \* next file id of the upload subsystem (a path is never reused)
    files,          \* table files: set of [path, expiry]
    blobs,          \* paths present in the upload directory
    hist_next,      \* next id of message_history
    hist,           \* table message_history: set of [id, replaced]
    touches,        \* updates of room_users so far
    act,            \* table room_users: set of [key, last_active]
    fut_next,       \* futures scheduled so far, plus one
    futures,        \* table user_permission_futures: set of [key, at, flags]
    overrides,      \* table user_permission_overrides: set of [key, flags]
    pc,             \* statement the maintenance thread is at
    ctx,            \* "tick": called from cleanup(); "direct": called by a test/caller
    now,            \* local `now` of the running function
    to_remove,      \* local `to_remove` of prune_files (paths)
    rest,           \* paths of to_remove the unlink loop has not reached
    unlink_count,   \* local `unlink_count` of prune_files
    pending,        \* uncommitted writes of the open transaction
    done,           \* what the last direct call returned, or that it raised
    pre,            \* history: the store when the running call opened its transaction
    removed,        \* history: paths this thread has unlinked
    pruned,         \* history: file rows this thread has deleted, with the call's now
    failed,         \* history: paths of this call whose unlink raised another error
    missing,        \* history: paths of this call whose unlink raised FileNotFoundError
    quiet,          \* history: nothing was added and no time passed since the last call began
    again,          \* history: the count of the previous call, when the running call
                    \* repeats it and nothing was added and no time has passed since
                    \* the previous call began; else -1
    invoked,        \* history: functions cleanup() has called in this tick
    last_tick       \* history: the functions the last completed tick called, and which raised

vars == <<clock, next_id, files, blobs, hist_next, hist, touches, act, fut_next, futures,
          overrides, pc, ctx, now, to_remove, rest, unlink_count, pending, done,
          pre, removed, pruned, failed, missing, quiet, again, invoked, last_tick>>

fileTabs == <<next_id, files, blobs>>
histTabs == <<hist_next, hist, touches, act>>
permTabs == <<fut_next, futures, overrides>>
frame == <<now, to_remove, rest, unlink_count, pending>>
fileLog == <<removed, pruned, failed, missing>>
tickLog == <<invoked, last_tick>>

(* ------------------------------ helpers ------------------------------- *)

\* The four functions cleanup() calls, in the order it calls them.
Order ==
    <<"prune_files", "prune_message_history", "prune_room_activity",
      "apply_permission_updates">>

Position(op) == CHOOSE i \in 1 .. Len(Order) : Order[i] = op

\* The whole store, as one value.
Store ==
    [files |-> files, hist |-> hist, act |-> act, futures |-> futures,
     overrides |-> overrides]

\* The store with no row in any table.
EmptyStore ==
    [files |-> {}, hist |-> {}, act |-> {}, futures |-> {}, overrides |-> {}]

NoCall == [op |-> "none", count |-> 0, raised |-> FALSE]
NoPending == [open |-> FALSE, overrides |-> {}, applied |-> 0]

NoTick == [invoked |-> <<>>, raised |-> "none"]

\* A direct caller looks at the frame of the call that returned; cleanup() does
\* not, and the frame is gone when the function returns to it.
Keep(v, gone) == IF ctx = "direct" THEN v ELSE gone

\* A transaction of the maintenance thread is open: other writers wait for it.
InTx == pending.open

\* External writers and the clock act between the statements of the thread, but
\* not inside its transaction and not at the instant a caller reads a result.
EnvMayAct == ~InTx /\ pc # "returned"

(* --------------------------- environment ------------------------------ *)

\* The clock moves on by a second.
Advance ==
    /\ pc # "returned"
    /\ clock < ClockBase + MaxClock
    /\ clock' = clock + 1
    /\ quiet' = FALSE
    /\ again' = -1
    /\ UNCHANGED <<fileTabs, histTabs, permTabs, pc, ctx, frame, done, pre,
                   fileLog, tickLog>>

\* The upload subsystem stores a blob and its file row.
Upload ==
    /\ EnvMayAct
    /\ next_id <= MaxFiles
    /\ \E e \in ExpiryTimes :
         files' = files \cup {[path |-> next_id, expiry |-> e]}
    /\ blobs' = blobs \cup {next_id}
    /\ next_id' = next_id + 1
    /\ quiet' = FALSE
    /\ again' = -1
    /\ UNCHANGED <<clock, histTabs, permTabs, pc, ctx, frame, done, pre,
                   fileLog, tickLog>>

\* Another process removes the blob of a stored file from the upload directory.
BlobVanish ==
    /\ EnvMayAct
    /\ \E f \in files : f.path \in blobs /\ blobs' = blobs \ {f.path}
    /\ UNCHANGED <<clock, next_id, files, histTabs, permTabs, pc, ctx, frame,
                   done, pre, fileLog, quiet, again, tickLog>>

\* The messaging subsystem records a replaced or deleted message.
AddHistory ==
    /\ EnvMayAct
    /\ (hist_next - 1) + touches < MaxRecords
    /\ \E ts \in HistStamps :
         hist' = hist \cup {[id |-> hist_next, replaced |-> ts]}
    /\ hist_next' = hist_next + 1
    /\ quiet' = FALSE
    /\ again' = -1
    /\ UNCHANGED <<clock, fileTabs, touches, act, permTabs, pc, ctx, frame, done,
                   pre, fileLog, tickLog>>

\* The messaging subsystem records the activity of a user in a room.
Touch ==
    /\ EnvMayAct
    /\ (hist_next - 1) + touches < MaxRecords
    /\ \E k \in RoomUsers, ts \in ActStamps :
         act' = {a \in act : a.key # k} \cup {[key |-> k, last_active |-> ts]}
    /\ touches' = touches + 1
    /\ quiet' = FALSE
    /\ again' = -1
    /\ UNCHANGED <<clock, fileTabs, hist_next, hist, permTabs, pc, ctx, frame,
                   done, pre, fileLog, tickLog>>

\* A moderator schedules a permission change of a user in a room.
Schedule ==
    /\ EnvMayAct
    /\ fut_next <= MaxFutures
    /\ \E k \in RoomUsers, t \in FutureTimes, v \in FutureRows :
         /\ \A f \in futures : ~(f.key = k /\ f.at = t)
         /\ futures' = futures \cup
                {[key |-> k, at |-> t, read |-> v.read, write |-> v.write,
                  upload |-> v.upload, banned |-> v.banned]}
    /\ fut_next' = fut_next + 1
    /\ quiet' = FALSE
    /\ again' = -1
    /\ UNCHANGED <<clock, fileTabs, histTabs, overrides, pc, ctx, frame, done,
                   pre, fileLog, tickLog>>

\* A moderator sets the live override of a user who has none.
Grant ==
    /\ EnvMayAct
    /\ \E k \in RoomUsers, v \in OverrideRows :
         /\ \A o \in overrides : o.key # k
         /\ overrides' = overrides \cup
                {[key |-> k, read |-> v.read, write |-> v.write,
                  upload |-> v.upload, banned |-> v.banned]}
    /\ quiet' = FALSE
    /\ again' = -1
    /\ UNCHANGED <<clock, fileTabs, histTabs, fut_next, futures, pc, ctx, frame,
                   done, pre, fileLog, tickLog>>

(* ------------------------ calls and returns --------------------------- *)

\* A caller other than cleanup() calls one of the four functions.
Call(op) ==
    /\ pc = "idle"
    /\ pc' = op
    /\ ctx' = "direct"
    /\ again' = IF done.op = op /\ ~done.raised /\ quiet THEN done.count ELSE -1
    /\ quiet' = TRUE
    /\ UNCHANGED <<clock, fileTabs, histTabs, permTabs, frame, done, pre,
                   fileLog, tickLog>>

\* The direct caller has read the result.
Resume ==
    /\ pc = "returned"
    /\ pc' = "idle"
    /\ now' = 0
    /\ to_remove' = {}
    /\ rest' = {}
    /\ unlink_count' = 0
    /\ pending' = NoPending
    /\ pre' = EmptyStore
    /\ failed' = {}
    /\ missing' = {}
    /\ again' = -1
    /\ UNCHANGED <<clock, fileTabs, histTabs, permTabs, ctx, done, removed,
                   pruned, quiet, tickLog>>

\* Mutant of CleanupStart: a tick after a failed one resumes at the function
\* that raised.
CleanupStart_Resume ==
    /\ pc = "idle"
    /\ pc' = IF last_tick.raised # "none" THEN last_tick.raised ELSE "prune_files"
    /\ ctx' = "tick"
    /\ invoked' = <<IF last_tick.raised # "none" THEN last_tick.raised ELSE "prune_files">>
    /\ again' = -1
    /\ quiet' = FALSE
    /\ UNCHANGED <<clock, fileTabs, histTabs, permTabs, frame, done, pre,
                   fileLog, last_tick>>

\* cleanup(), lines 13-17: a tick starts and calls prune_files().
CleanupStart ==
    /\ pc = "idle"
    /\ pc' = "prune_files"
    /\ ctx' = "tick"
    /\ invoked' = <<"prune_files">>
    /\ again' = -1
    /\ quiet' = FALSE
    /\ UNCHANGED <<clock, fileTabs, histTabs, permTabs, frame, done, pre,
                   fileLog, last_tick>>

\* Function op returns n: to its direct caller, or to cleanup(), which calls the
\* next function or, after the last, logs the counts and returns.
Return(op, n) ==
    IF ctx = "direct"
    THEN /\ pc' = "returned"
         /\ done' = [op |-> op, count |-> n, raised |-> FALSE]
         /\ UNCHANGED tickLog
    ELSE IF Position(op) < Len(Order)
    THEN /\ pc' = Order[Position(op) + 1]
         /\ invoked' = Append(invoked, Order[Position(op) + 1])
         /\ UNCHANGED <<done, last_tick>>
    ELSE /\ pc' = "idle"
         /\ last_tick' = [invoked |-> invoked, raised |-> "none"]
         /\ invoked' = <<>>
         /\ UNCHANGED done

\* Mutant of Raise: cleanup() has no except clause, the error of op leaves it.
Raise_Uncaught(op) ==
    /\ pc' = "returned"
    /\ done' = [op |-> op, count |-> 0, raised |-> TRUE]
    /\ last_tick' = IF ctx = "direct" THEN last_tick
                    ELSE [invoked |-> invoked, raised |-> op]
    /\ invoked' = <<>>

\* Function op raises: to its direct caller, or to the except clause of
\* cleanup(), which logs a warning and returns.
Raise(op) ==
    IF ctx = "direct"
    THEN /\ pc' = "returned"
         /\ done' = [op |-> op, count |-> 0, raised |-> TRUE]
         /\ UNCHANGED tickLog
    ELSE /\ pc' = "idle"
         /\ last_tick' = [invoked |-> invoked, raised |-> op]
         /\ invoked' = <<>>
         /\ UNCHANGED done

(* --------------------------- prune_files ------------------------------ *)

\* Mutant of SelectExpired: the select compares with <=, like the delete.
SelectExpired_Inclusive(t) == {r.path : r \in {f \in files : f.expiry <= t}}

\* SELECT path FROM files WHERE expiry < now
SelectExpired(t) == {r.path : r \in {f \in files : f.expiry < t}}

\* Mutant of DeletedFiles: the delete compares with <, like the select.
DeletedFiles_Strict(t) == {f \in files : f.expiry < t}

\* Mutant of DeletedFiles: the delete misses the rows that expired a second ago.
DeletedFiles_Older(t) == {f \in files : f.expiry < t - 1}

\* Mutant of DeletedFiles: the delete reaches a second into the future.
DeletedFiles_Early(t) == {f \in files : f.expiry <= t + 1}

\* The rows DELETE FROM files WHERE expiry <= now deletes.
DeletedFiles(t) == {f \in files : f.expiry <= t}

\* Lines 31-38: open the transaction, read the clock, select the expired paths;
\* with none, return 0 (the empty transaction commits).
PF_Select ==
    /\ pc = "prune_files"
    /\ to_remove' = SelectExpired(clock)
    /\ rest' = {}
    /\ unlink_count' = 0
    /\ failed' = {}
    /\ missing' = {}
    /\ IF SelectExpired(clock) = {}
       THEN /\ Return("prune_files", 0)
            /\ now' = Keep(clock, 0)
            /\ pre' = Keep(Store, EmptyStore)
            /\ pending' = NoPending
       ELSE /\ pc' = "pf_delete"
            /\ now' = clock
            /\ pre' = Store
            /\ pending' = [NoPending EXCEPT !.open = TRUE]
            /\ UNCHANGED <<done, tickLog>>
    /\ UNCHANGED <<clock, fileTabs, histTabs, permTabs, ctx, removed, pruned,
                   quiet, again>>

\* Lines 40-43: delete the rows and commit; the unlink loop starts.
PF_Delete ==
    /\ pc = "pf_delete"
    /\ files' = files \ DeletedFiles(now)
    /\ pruned' = pruned \cup
           {[path |-> f.path, expiry |-> f.expiry, now |-> now] : f \in DeletedFiles(now)}
    /\ pending' = NoPending
    /\ rest' = to_remove
    /\ unlink_count' = 0
    /\ pc' = "pf_unlink"
    /\ UNCHANGED <<clock, next_id, blobs, histTabs, permTabs, ctx, now, to_remove,
                   done, pre, removed, failed, missing, quiet, again, tickLog>>

\* Lines 31-40: a statement of the transaction raises; the transaction is rolled
\* back and the error leaves prune_files.
PF_StoreError ==
    /\ pc \in {"prune_files", "pf_delete"}
    /\ pending' = NoPending
    /\ Raise("prune_files")
    /\ now' = Keep(now, 0)
    /\ to_remove' = Keep(to_remove, {})
    /\ pre' = Keep(IF pc = "prune_files" THEN Store ELSE pre, EmptyStore)
    /\ UNCHANGED <<clock, fileTabs, histTabs, permTabs, ctx, rest, unlink_count,
                   fileLog, quiet, again>>

\* Lines 44-51, one turn of the loop: os.unlink(path) removes the blob, or raises
\* FileNotFoundError (the blob is not there), or raises another error.
PF_Unlink ==
    /\ pc = "pf_unlink"
    /\ \E p \in rest :
         /\ rest' = rest \ {p}
         /\ \/ /\ p \in blobs
               /\ blobs' = blobs \ {p}
               /\ unlink_count' = unlink_count + 1
               /\ removed' = removed \cup {p}
               /\ UNCHANGED <<failed, missing>>
            \/ /\ p \notin blobs
               /\ missing' = missing \cup {p}
               /\ UNCHANGED <<blobs, unlink_count, removed, failed>>
            \/ /\ failed' = failed \cup {p}
               /\ UNCHANGED <<blobs, unlink_count, removed, missing>>
    /\ UNCHANGED <<clock, next_id, files, histTabs, permTabs, pc, ctx, now,
                   to_remove, pending, done, pre, pruned, quiet, again, tickLog>>

\* Mutant of PrunedCount: the count of blobs unlinked is returned.
PrunedCount_Unlinked == unlink_count

\* Line 59: len(to_remove).
PrunedCount == Cardinality(to_remove)

\* Lines 53-59: the loop is over; log and return len(to_remove).
PF_Return ==
    /\ pc = "pf_unlink"
    /\ rest = {}
    /\ Return("prune_files", PrunedCount)
    /\ now' = Keep(now, 0)
    /\ to_remove' = Keep(to_remove, {})
    /\ unlink_count' = Keep(unlink_count, 0)
    /\ pre' = Keep(pre, EmptyStore)
    /\ failed' = Keep(failed, {})
    /\ missing' = Keep(missing, {})
    /\ UNCHANGED <<clock, fileTabs, histTabs, permTabs, ctx, rest, pending,
                   removed, pruned, quiet, again>>

\* The process dies inside a function: the open transaction is rolled back, the
\* locals are lost, and the restarted service is idle again.
Crash ==
    /\ pc \notin {"idle", "returned"}
    /\ pc' = "idle"
    /\ now' = 0
    /\ to_remove' = {}
    /\ rest' = {}
    /\ unlink_count' = 0
    /\ pending' = NoPending
    /\ failed' = {}
    /\ missing' = {}
    /\ pre' = EmptyStore
    /\ quiet' = FALSE
    /\ again' = -1
    /\ invoked' = <<>>
    /\ UNCHANGED <<clock, fileTabs, histTabs, permTabs, ctx, done, removed,
                   pruned, last_tick>>

(* ----------------- prune_message_history, prune_room_activity --------- *)

\* Line 66: time.time() - config.MESSAGE_HISTORY_PRUNE_THRESHOLD * 86400
HistCutoff(t) == t - MESSAGE_HISTORY_PRUNE_THRESHOLD * DAY

\* Line 79: time.time() - config.ROOM_ACTIVE_PRUNE_THRESHOLD * 86400
ActCutoff(t) == t - ROOM_ACTIVE_PRUNE_THRESHOLD * DAY

\* Mutant of StaleHistory: the row at the cutoff is deleted too.
StaleHistory_Inclusive(t) == {r \in hist : r.replaced <= HistCutoff(t)}

\* The rows DELETE FROM message_history WHERE replaced < cutoff deletes.
StaleHistory(t) == {r \in hist : r.replaced < HistCutoff(t)}

\* The rows DELETE FROM room_users WHERE last_active < cutoff deletes.
StaleActivity(t) == {a \in act : a.last_active < ActCutoff(t)}

\* Lines 62-72: one transaction with one DELETE; cur.rowcount is returned.
PMH_Delete ==
    /\ pc = "prune_message_history"
    /\ now' = Keep(clock, 0)
    /\ pre' = Keep(Store, EmptyStore)
    /\ hist' = hist \ StaleHistory(clock)
    /\ Return("prune_message_history", Cardinality(StaleHistory(clock)))
    /\ UNCHANGED <<clock, fileTabs, hist_next, touches, act, permTabs, ctx,
                   to_remove, rest, unlink_count, pending, fileLog, quiet, again>>

\* Lines 75-85: one transaction with one DELETE; cur.rowcount is returned.
PRA_Delete ==
    /\ pc = "prune_room_activity"
    /\ now' = Keep(clock, 0)
    /\ pre' = Keep(Store, EmptyStore)
    /\ act' = act \ StaleActivity(clock)
    /\ Return("prune_room_activity", Cardinality(StaleActivity(clock)))
    /\ UNCHANGED <<clock, fileTabs, hist_next, hist, touches, permTabs, ctx,
                   to_remove, rest, unlink_count, pending, fileLog, quiet, again>>

\* Lines 63-68 and 76-81: the statement or the commit raises; the transaction
\* is rolled back and the error leaves the function.
Prune_StoreError ==
    /\ pc \in {"prune_message_history", "prune_room_activity"}
    /\ Raise(pc)
    /\ pre' = Keep(Store, EmptyStore)
    /\ UNCHANGED <<clock, fileTabs, histTabs, permTabs, ctx, frame, fileLog,
                   quiet, again>>

(* ----------------------- apply_permission_updates --------------------- *)

\* Mutant of Coalesce: the future's value is taken even when it is NULL.
Coalesce_Overwrite(a, b) == a

\* COALESCE(a, b)
Coalesce(a, b) == IF a # NULL THEN a ELSE b

\* SELECT ... FROM user_permission_futures WHERE at <= now
DueFutures(t) == {f \in futures : f.at <= t}

\* Mutant of ConsumedFutures: the future activating exactly now is left behind.
ConsumedFutures_Strict(t) == {f \in futures : f.at < t}

\* The rows DELETE FROM user_permission_futures WHERE at <= now deletes.
ConsumedFutures(t) == {f \in futures : f.at <= t}

\* Lines 93-100, for one selected row f: insert it, or on a conflict of
\* (room, user) update the row there field by field.
Upsert(ov, f) ==
    IF \E o \in ov : o.key = f.key
    THEN LET o == CHOOSE o \in ov : o.key = f.key
         IN  (ov \ {o}) \cup
                 {[key |-> f.key,
                   read |-> Coalesce(f.read, o.read),
                   write |-> Coalesce(f.write, o.write),
                   upload |-> Coalesce(f.upload, o.upload),
                   banned |-> Coalesce(f.banned, o.banned)]}
    ELSE ov \cup
             {[key |-> f.key, read |-> f.read, write |-> f.write,
               upload |-> f.upload, banned |-> f.banned]}

\* Mutant of UpsertAll: only the first selected row is upserted.
UpsertAll_HeadOnly(ov, rows) ==
    IF rows = <<>> THEN ov ELSE Upsert(ov, Head(rows))

\* The selected rows, upserted one after the other in the order `rows`.
RECURSIVE UpsertAll(_, _)
UpsertAll(ov, rows) ==
    IF rows = <<>> THEN ov ELSE UpsertAll(Upsert(ov, Head(rows)), Tail(rows))

\* The orders in which a SELECT without ORDER BY may yield the rows of S.
Orders(S) ==
    {q \in [1 .. Cardinality(S) -> S] : \A i, j \in DOMAIN q : i # j => q[i] # q[j]}

\* Mutant of APU_Upsert: the upsert is committed on its own, before the DELETE.
APU_Upsert_Autocommit ==
    /\ pc = "apply_permission_updates"
    /\ DueFutures(clock) # {}
    /\ now' = clock
    /\ pre' = Store
    /\ \E q \in Orders(DueFutures(clock)) :
         /\ overrides' = UpsertAll(overrides, q)
         /\ pending' = [open |-> TRUE, overrides |-> overrides',
                        applied |-> Len(q)]
    /\ pc' = "apu_delete"
    /\ UNCHANGED <<clock, fileTabs, histTabs, fut_next, futures, ctx, to_remove,
                   rest, unlink_count, fileLog, quiet, again, done, tickLog>>

\* Lines 89-106: open the transaction, read the clock, run the upsert; with no
\* row affected return 0.
APU_Upsert ==
    /\ pc = "apply_permission_updates"
    /\ IF DueFutures(clock) = {}
       THEN /\ Return("apply_permission_updates", 0)
            /\ now' = Keep(clock, 0)
            /\ pre' = Keep(Store, EmptyStore)
            /\ pending' = NoPending
       ELSE /\ now' = clock
            /\ pre' = Store
            /\ \E q \in Orders(DueFutures(clock)) :
                 pending' = [open |-> TRUE,
                             overrides |-> UpsertAll(overrides, q),
                             applied |-> Len(q)]
            /\ pc' = "apu_delete"
            /\ UNCHANGED <<done, tickLog>>
    /\ UNCHANGED <<clock, fileTabs, histTabs, permTabs, ctx, to_remove, rest,
                   unlink_count, fileLog, quiet, again>>

\* Lines 108-111: delete the applied futures and commit; return num_applied.
APU_Delete ==
    /\ pc = "apu_delete"
    /\ overrides' = pending.overrides
    /\ futures' = futures \ ConsumedFutures(now)
    /\ pending' = NoPending
    /\ Return("apply_permission_updates", pending.applied)
    /\ now' = Keep(now, 0)
    /\ pre' = Keep(pre, EmptyStore)
    /\ UNCHANGED <<clock, fileTabs, histTabs, fut_next, ctx, to_remove, rest,
                   unlink_count, fileLog, quiet, again>>

\* Lines 89-108: a statement or the commit raises; the transaction is rolled
\* back and the error leaves apply_permission_updates.
APU_StoreError ==
    /\ pc \in {"apply_permission_updates", "apu_delete"}
    /\ pending' = NoPending
    /\ Raise("apply_permission_updates")
    /\ now' = Keep(now, 0)
    /\ pre' = Keep(IF pc = "apply_permission_updates" THEN Store ELSE pre,
                   EmptyStore)
    /\ UNCHANGED <<clock, fileTabs, histTabs, permTabs, ctx, to_remove, rest,
                   unlink_count, fileLog, quiet, again>>

(* ---------------------------- specifications -------------------------- *)

Init ==
    /\ clock = ClockBase
    /\ next_id = 1
    /\ files = {}
    /\ blobs = {}
    /\ hist_next = 1
    /\ hist = {}
    /\ touches = 0
    /\ act = {}
    /\ fut_next = 1
    /\ futures = {}
    /\ overrides = {}
    /\ pc = "idle"
    /\ ctx = "direct"
    /\ now = 0
    /\ to_remove = {}
    /\ rest = {}
    /\ unlink_count = 0
    /\ pending = NoPending
    /\ done = NoCall
    /\ pre = EmptyStore
    /\ removed = {}
    /\ pruned = {}
    /\ failed = {}
    /\ missing = {}
    /\ quiet = FALSE
    /\ again = -1
    /\ invoked = <<>>
    /\ last_tick = NoTick

\* prune_files() under direct calls, uploads, vanishing blobs, store errors and
\* crashes.
NextFiles ==
    \/ Advance
    \/ Upload
    \/ BlobVanish
    \/ Call("prune_files")
    \/ Resume
    \/ PF_Select
    \/ PF_Delete
    \/ PF_StoreError
    \/ PF_Unlink
    \/ PF_Return
    \/ Crash

SpecFiles == Init /\ [][NextFiles]_vars

\* prune_message_history() and prune_room_activity() under direct calls.
NextRetention ==
    \/ Advance
    \/ AddHistory
    \/ Touch
    \/ Call("prune_message_history")
    \/ Call("prune_room_activity")
    \/ Resume
    \/ PMH_Delete
    \/ PRA_Delete
    \/ Prune_StoreError
    \/ Crash

SpecRetention == Init /\ [][NextRetention]_vars

\* apply_permission_updates() under direct calls.
NextPerms ==
    \/ Advance
    \/ Schedule
    \/ Grant
    \/ Call("apply_permission_updates")
    \/ Resume
    \/ APU_Upsert
    \/ APU_Delete
    \/ APU_StoreError
    \/ Crash

SpecPerms == Init /\ [][NextPerms]_vars

\* The four functions work on disjoint tables.  In the specifications that run
\* all four, a behaviour fills the tables of one of them, and a direct caller
\* calls the function of the tables that are filled.
FilesUntouched == next_id = 1
RetentionUntouched == hist_next = 1 /\ touches = 0
PermsUntouched == fut_next = 1 /\ overrides = {}

\* Each function called twice or more by a direct caller, on its own tables.
NextTwice ==
    \/ Advance
    \/ (RetentionUntouched /\ PermsUntouched /\ (Upload \/ BlobVanish))
    \/ (FilesUntouched /\ PermsUntouched /\ (AddHistory \/ Touch))
    \/ (FilesUntouched /\ RetentionUntouched /\ (Schedule \/ Grant))
    \/ (RetentionUntouched /\ PermsUntouched /\ Call("prune_files"))
    \/ (FilesUntouched /\ PermsUntouched /\ hist_next > 1 /\ Call("prune_message_history"))
    \/ (FilesUntouched /\ PermsUntouched /\ touches > 0 /\ Call("prune_room_activity"))
    \/ (FilesUntouched /\ RetentionUntouched /\ ~PermsUntouched
            /\ Call("apply_permission_updates"))
    \/ Resume
    \/ PF_Select
    \/ PF_Delete
    \/ PF_StoreError
    \/ PF_Unlink
    \/ PF_Return
    \/ PMH_Delete
    \/ PRA_Delete
    \/ Prune_StoreError
    \/ APU_Upsert
    \/ APU_Delete
    \/ APU_StoreError
    \/ Crash

SpecTwice == Init /\ [][NextTwice]_vars

\* The service: cleanup() runs tick after tick, beside the writers of one of
\* the table families.
Next ==
    \/ Advance
    \/ (RetentionUntouched /\ PermsUntouched /\ (Upload \/ BlobVanish))
    \/ (FilesUntouched /\ PermsUntouched /\ (AddHistory \/ Touch))
    \/ (FilesUntouched /\ RetentionUntouched /\ (Schedule \/ Grant))
    \/ CleanupStart
    \/ PF_Select
    \/ PF_Delete
    \/ PF_StoreError
    \/ PF_Unlink
    \/ PF_Return
    \/ PMH_Delete
    \/ PRA_Delete
    \/ Prune_StoreError
    \/ APU_Upsert
    \/ APU_Delete
    \/ APU_StoreError
    \/ Crash

Spec == Init /\ [][Next]_vars

\* The timer keeps calling cleanup() every INTERVAL seconds, and each store
\* statement succeeds at some time when it is tried again and again: a store
\* error may take its place many times, not for ever. The unlink loop and the
\* return of prune_files have no error that ends them; they just go on.
Fairness ==
    /\ WF_vars(CleanupStart)
    /\ SF_vars(PF_Select)
    /\ SF_vars(PF_Delete)
    /\ WF_vars(PF_Unlink)
    /\ WF_vars(PF_Return)
    /\ SF_vars(PMH_Delete)
    /\ SF_vars(PRA_Delete)
    /\ SF_vars(APU_Upsert)
    /\ SF_vars(APU_Delete)

\* cleanup() has not been started yet.
TimerNotStarted == ctx = "direct"

\* cleanup() started on a store its writers have filled and now leave alone:
\* the backlog is what the store holds at the first tick, and the clock goes
\* on. Blobs are on disk and no live override is granted by hand: neither
\* decides whether a row leaves its table. The process is not killed: the
\* timer does not stop.
NextLive ==
    \/ Advance
    \/ (TimerNotStarted /\ RetentionUntouched /\ PermsUntouched /\ Upload)
    \/ (TimerNotStarted /\ FilesUntouched /\ PermsUntouched
            /\ (AddHistory \/ Touch))
    \/ (TimerNotStarted /\ FilesUntouched /\ RetentionUntouched /\ Schedule)
    \/ CleanupStart
    \/ PF_Select
    \/ PF_Delete
    \/ PF_StoreError
    \/ PF_Unlink
    \/ PF_Return
    \/ PMH_Delete
    \/ PRA_Delete
    \/ Prune_StoreError
    \/ APU_Upsert
    \/ APU_Delete
    \/ APU_StoreError

\* cleanup() under a timer that does not stop.
SpecLive == Init /\ [][NextLive]_vars /\ Fairness

(* ------------------------------- types -------------------------------- *)

FlagRow(r) == \A fld \in Fields : r[fld] \in Flag

TypeOK ==
    /\ clock \in ClockBase .. (ClockBase + MaxClock)
    /\ next_id \in 1 .. (MaxFiles + 1)
    /\ \A f \in files : f.path \in Paths /\ f.expiry \in ExpiryTimes
    /\ \A f, g \in files : f.path = g.path => f = g
    /\ blobs \subseteq Paths
    /\ \A r \in hist : r.replaced \in HistStamps
    /\ \A a \in act : a.key \in RoomUsers /\ a.last_active \in ActStamps
    /\ \A a, b \in act : a.key = b.key => a = b
    /\ \A f \in futures : f.key \in RoomUsers /\ f.at \in FutureTimes /\ FlagRow(f)
    /\ \A o \in overrides : o.key \in RoomUsers /\ FlagRow(o)
    /\ \A o, q \in overrides : o.key = q.key => o = q
    /\ pc \in {"idle", "returned", "prune_files", "pf_delete", "pf_unlink",
               "prune_message_history", "prune_room_activity",
               "apply_permission_updates", "apu_delete"}
    /\ ctx \in {"direct", "tick"}
    /\ to_remove \subseteq Paths
    /\ rest \subseteq to_remove
    /\ unlink_count \in 0 .. MaxFiles
    /\ pending.open = (pc \in {"pf_delete", "apu_delete"})

(* ------------------------ claims on prune_files ----------------------- *)

\* A direct call of prune_files has just returned (without raising).
PF_Returned == pc = "returned" /\ done.op = "prune_files" /\ ~done.raised

\* C1: when a call of prune_files completes, no file row that had expiry < now
\* when the call selected is left in the store, and the blob of each such row is
\* off the disk unless its unlink raised an error other than FileNotFoundError.
C1_ExpiredPruned ==
    PF_Returned =>
        \A f \in pre.files :
            f.expiry < now =>
                /\ f \notin files
                /\ f.path \in blobs => f.path \in failed

\* C1 witness: a completed call that unlinked the blob of an expired row.
C1_Witness ==
    /\ PF_Returned
    /\ \E f \in pre.files :
         f.expiry < now /\ f \notin files /\ f.path \in removed /\ f.path \notin blobs

\* C2: in every state, crashes inside prune_files included, no row of files
\* names a blob this thread has unlinked, and no unlink precedes the commit of
\* the delete.
C2_StoreAheadOfDisk ==
    /\ \A f \in files : f.path \notin removed
    /\ pc \in {"prune_files", "pf_delete"} => failed \cup missing = {}
    /\ pc = "pf_delete" => to_remove \cap removed = {}

\* C2 witness: the thread crashed in the unlink loop, one blob unlinked, one not,
\* while the store holds neither row.
C2_Witness ==
    /\ pc = "idle"
    /\ done = NoCall
    /\ removed # {}
    /\ \E d \in pruned : d.path \in blobs /\ d.path \notin removed /\ d.expiry < d.now
    /\ files = {}

\* C3 as claimed: a row with expiry = now is deleted by the call whatever else
\* the table holds.
C3_Original ==
    PF_Returned => \A f \in pre.files : f.expiry = now => f \notin files

\* C3: a row with expiry = now is deleted by a call that selected at least one
\* row with expiry < now; a call that selected none deletes nothing.
C3_BoundaryDeleted ==
    PF_Returned =>
        /\ to_remove # {} => \A f \in pre.files : f.expiry = now => f \notin files
        /\ to_remove = {} => files = pre.files

\* C3 witness: a completed call deleted a row with expiry = now.
C3_Witness ==
    /\ PF_Returned
    /\ to_remove # {}
    /\ \E f \in pre.files : f.expiry = now /\ f \notin files

\* C8: a call of prune_files in which an unlink failed (blob missing, or another
\* error) still returns without raising, has tried every selected path, keeps
\* the rows deleted and returns the number of rows selected.
C8_UnlinkFailureNotFatal ==
    (pc = "returned" /\ done.op = "prune_files" /\ failed \cup missing # {}) =>
        /\ ~done.raised
        /\ done.count = Cardinality(to_remove)
        /\ to_remove = failed \cup missing \cup (removed \cap to_remove)
        /\ \A f \in pre.files : f.path \in to_remove => f \notin files

\* C8 witness: one unlink raised another error, the other selected path was
\* tried after it, and the call returned 2.
C8_Witness ==
    /\ PF_Returned
    /\ failed # {}
    /\ failed # to_remove
    /\ done.count = 2

\* C9: every row this thread has deleted had an expiry not later than the now
\* of the call that deleted it, and every blob it has unlinked belonged to a row
\* with expiry < now of that call: a row with a later expiry is still in the
\* store, with its blob.
C9_NothingPrunedEarly ==
    /\ \A d \in pruned : d.expiry <= d.now
    /\ \A p \in removed : \E d \in pruned : d.path = p /\ d.expiry < d.now

\* C9 witness: a call has pruned a row while a row expiring after the call's
\* now is in the store with its blob.
C9_Witness ==
    \E d \in pruned : \E f \in files :
        f.expiry > d.now /\ f.path \in blobs /\ d.path \in removed

\* C10 as claimed: when a row leaves the store, its blob has been seen to be
\* removable (unlinked, or found absent).
C10_Original ==
    [][\A f \in files \ files' : f.path \in removed \cup missing]_vars

\* C10: the row goes first: every path whose unlink this thread has tried
\* (unlinked, missing or failed) is the path of a row it had deleted before, and
\* a failed unlink leaves the row deleted.
C10_RowDeletedFirst ==
    /\ \A p \in removed \cup failed \cup missing : \E d \in pruned : d.path = p
    /\ \A p \in failed : \A f \in files : f.path # p

\* C10 witness: the unlink of a deleted row's blob failed; the blob is on disk
\* and the row is gone.
C10_Witness ==
    \E p \in failed : p \in blobs /\ \E d \in pruned : d.path = p

\* C11: every row a call of prune_files has deleted is a row whose path the
\* call selected, and the call has tried to unlink that path by the time it
\* returns.
C11_DeletedRowsAreUnlinked ==
    PF_Returned =>
        \A f \in pre.files \ files :
            /\ f.path \in to_remove
            /\ f.path \in removed \cup failed \cup missing

\* C17: a call of prune_files that finds no row with expiry < now returns 0,
\* deletes no row and tries no unlink.
C17_NothingExpiredNoWork ==
    (PF_Returned /\ \A f \in pre.files : ~(f.expiry < now)) =>
        /\ done.count = 0
        /\ files = pre.files
        /\ to_remove = {}
        /\ unlink_count = 0
        /\ failed \cup missing = {}

\* C17 witness: the call met only rows with expiry >= now, one of them with
\* expiry = now, and returned 0 with the rows in place.
C17_Witness ==
    /\ PF_Returned
    /\ now > 0
    /\ pre.files # {}
    /\ \A f \in pre.files : f.expiry >= now
    /\ \E f \in pre.files : f.expiry = now /\ f \in files /\ f.path \in blobs
    /\ done.count = 0

(* -------------- claims on the history and activity pruners ------------ *)

\* C5: a call of prune_message_history or prune_room_activity keeps the rows
\* whose timestamp equals now - threshold * 86400, deletes the rows one second
\* older, and returns the number of rows it deleted.
C5_StrictRetentionBoundary ==
    /\ (pc = "returned" /\ done.op = "prune_message_history" /\ ~done.raised) =>
           /\ \A r \in pre.hist :
                /\ r.replaced = now - MESSAGE_HISTORY_PRUNE_THRESHOLD * DAY => r \in hist
                /\ r.replaced = now - MESSAGE_HISTORY_PRUNE_THRESHOLD * DAY - 1 => r \notin hist
           /\ hist \subseteq pre.hist
           /\ done.count = Cardinality(pre.hist \ hist)
    /\ (pc = "returned" /\ done.op = "prune_room_activity" /\ ~done.raised) =>
           /\ \A a \in pre.act :
                /\ a.last_active = now - ROOM_ACTIVE_PRUNE_THRESHOLD * DAY => a \in act
                /\ a.last_active = now - ROOM_ACTIVE_PRUNE_THRESHOLD * DAY - 1 => a \notin act
           /\ act \subseteq pre.act
           /\ done.count = Cardinality(pre.act \ act)

\* C5 witness: prune_message_history met a row at the cutoff and a row one
\* second older, kept the first, deleted the second and returned 1.
C5_Witness ==
    /\ pc = "returned"
    /\ done.op = "prune_message_history"
    /\ done.count = 1
    /\ \E r, q \in pre.hist :
         /\ r.replaced = now - MESSAGE_HISTORY_PRUNE_THRESHOLD * DAY
         /\ q.replaced = r.replaced - 1
         /\ r \in hist
         /\ q \notin hist

\* The same case for prune_room_activity.
C5_WitnessActivity ==
    /\ pc = "returned"
    /\ done.op = "prune_room_activity"
    /\ done.count = 1
    /\ \E r, q \in pre.act :
         /\ r.last_active = now - ROOM_ACTIVE_PRUNE_THRESHOLD * DAY
         /\ q.last_active = r.last_active - 1
         /\ r \in act
         /\ q \notin act

(* ----------------- claims on apply_permission_updates ----------------- *)

\* The futures of pre.futures that were due at `now` for key k.
DueFor(k) == {f \in pre.futures : f.key = k /\ f.at <= now}

\* C6: after apply_permission_updates, for a (room, user) with exactly one due
\* future, each flag of the live row is the future's value when the future sets
\* it and otherwise the value the live row had; with no live row before, the
\* row is the future's values, NULLs included.
C6_MergeFieldByField ==
    (pc = "returned" /\ done.op = "apply_permission_updates" /\ ~done.raised) =>
        \A f \in pre.futures :
            DueFor(f.key) = {f} =>
                /\ Cardinality({o \in overrides : o.key = f.key}) = 1
                /\ \A o \in overrides : o.key = f.key =>
                     \A fld \in Fields :
                        /\ f[fld] # NULL => o[fld] = f[fld]
                        /\ f[fld] = NULL =>
                             /\ \A old \in pre.overrides :
                                    old.key = f.key => o[fld] = old[fld]
                             /\ (\A old \in pre.overrides : old.key # f.key)
                                    => o[fld] = NULL

\* C6 witness: the live row {read = true, write = NULL} met the due future
\* {read = NULL, write = false, banned = true} and became {read = true,
\* write = false, banned = true}, upload as it was.
C6_Witness ==
    /\ pc = "returned"
    /\ done.op = "apply_permission_updates"
    /\ \E f \in pre.futures : \E old \in pre.overrides : \E o \in overrides :
         /\ DueFor(f.key) = {f}
         /\ old.key = f.key /\ o.key = f.key
         /\ old.read = {TRUE} /\ old.write = NULL
         /\ f.read = NULL /\ f.write = {FALSE} /\ f.banned = {TRUE}
         /\ o.read = {TRUE} /\ o.write = {FALSE} /\ o.banned = {TRUE}
         /\ o.upload = old.upload

\* C6 witness of the insert: no live row before, the future's NULLs are kept.
C6_WitnessInsert ==
    /\ pc = "returned"
    /\ done.op = "apply_permission_updates"
    /\ \E f \in pre.futures : \E o \in overrides :
         /\ DueFor(f.key) = {f}
         /\ o.key = f.key
         /\ \A old \in pre.overrides : old.key # f.key
         /\ f.read = NULL /\ o.read = NULL

APU_Returned ==
    pc = "returned" /\ done.op = "apply_permission_updates" /\ ~done.raised

\* The live row of (room, user) k in the table ov, as a set of 0 or 1 rows.
LiveRow(ov, k) == {o \in ov : o.key = k}

\* The values the due futures of k set for the flag fld.
DueValues(k, fld) == {g[fld] : g \in DueFor(k)} \ {NULL}

\* The value the flag fld of k had before the call; NULL without a live row.
PriorValues(k, fld) ==
    IF LiveRow(pre.overrides, k) = {} THEN {NULL}
    ELSE {old[fld] : old \in LiveRow(pre.overrides, k)}

\* C12: when apply_permission_updates has returned, the futures left are
\* exactly those that had at > now, unchanged; every future that had at <= now
\* is gone and each flag it sets is set in the live row of its (room, user); a
\* (room, user) with futures only at > now has the live row it had, and no
\* live flag holds a value that comes from neither a due future nor the row
\* before.
C12_ConsumedIffApplied ==
    APU_Returned =>
        /\ futures = {f \in pre.futures : f.at > now}
        /\ done.count = Cardinality({f \in pre.futures : f.at <= now})
        /\ \A f \in pre.futures : f.at <= now =>
             /\ f \notin futures
             /\ \E o \in overrides :
                  /\ o.key = f.key
                  /\ \A fld \in Fields :
                       f[fld] # NULL => o[fld] \in DueValues(f.key, fld)
        /\ \A k \in RoomUsers :
             DueFor(k) = {} => LiveRow(overrides, k) = LiveRow(pre.overrides, k)
        /\ \A o \in overrides : \A fld \in Fields :
             o[fld] \in DueValues(o.key, fld) \cup PriorValues(o.key, fld)

\* C12 witness: a future with at = now was applied and is gone, while a future
\* of another (room, user) with at > now is still scheduled and that
\* (room, user) has no live row.
C12_Witness ==
    /\ APU_Returned
    /\ done.count = 1
    /\ \E f, g \in pre.futures :
         /\ f.at = now /\ f \notin futures
         /\ \E o \in overrides : o.key = f.key /\ o.banned = f.banned
                                               /\ f.banned # NULL
         /\ g.at > now /\ g \in futures /\ g.key # f.key
         /\ LiveRow(overrides, g.key) = {}

\* C15: when a (room, user) had two or more due futures, one call of
\* apply_permission_updates consumes all of them and counts each, and leaves
\* one live row whose every flag is a value one of those futures sets, or the
\* value it had before when none of them sets it.
C15_SeveralDueOnePass ==
    APU_Returned =>
        \A k \in RoomUsers :
            Cardinality(DueFor(k)) >= 2 =>
                /\ DueFor(k) \cap futures = {}
                /\ done.count >= Cardinality(DueFor(k))
                /\ Cardinality(LiveRow(overrides, k)) = 1
                /\ \A o \in LiveRow(overrides, k) : \A fld \in Fields :
                     IF DueValues(k, fld) # {}
                     THEN o[fld] \in DueValues(k, fld)
                     ELSE o[fld] \in PriorValues(k, fld)

\* C15 witness: two due futures of one (room, user) disagreed on write, both
\* are consumed by a call that returned 2, and the live row has the write of
\* the first and the read that only the second sets.
C15_Witness ==
    /\ APU_Returned
    /\ done.count = 2
    /\ \E f, g \in pre.futures : \E o \in overrides :
         /\ f.key = g.key /\ o.key = f.key
         /\ f.at < g.at /\ g.at <= now
         /\ f.write = {FALSE} /\ g.write = {TRUE}
         /\ f.read = NULL /\ g.read = {FALSE}
         /\ o.write = {FALSE} /\ o.read = {FALSE}
         /\ futures = {}

\* C15 witness of the other order: the same two futures, the live row with
\* the write of the second.
C15_WitnessOtherOrder ==
    /\ APU_Returned
    /\ done.count = 2
    /\ \E f, g \in pre.futures : \E o \in overrides :
         /\ f.key = g.key /\ o.key = f.key
         /\ f.at < g.at /\ g.at <= now
         /\ f.write = {FALSE} /\ g.write = {TRUE}
         /\ o.write = {TRUE}

\* C18: no step clears a flag of a live row or removes a live row, and the
\* commit of apply_permission_updates leaves the live row of every
\* (room, user) without a due future as it was; every other step leaves every
\* live row as it was.
C18_NeverUnsetsNorTouchesOthers ==
    [][\A o \in overrides :
          \E q \in overrides' :
             /\ q.key = o.key
             /\ \A fld \in Fields : o[fld] # NULL => q[fld] # NULL
             /\ (pc # "apu_delete"
                    \/ \A f \in futures : ~(f.key = o.key /\ f.at <= now))
                  => q = o]_vars

\* C18 witness: a call applied a due future that leaves read unset to a live
\* row with read set, read is still set, and the live row of another
\* (room, user), with a future not yet due, is the row it was.
C18_Witness ==
    /\ APU_Returned
    /\ done.count > 0
    /\ \E f \in pre.futures : \E old \in pre.overrides : \E o \in overrides :
         /\ f.at <= now /\ f.key = old.key /\ o.key = old.key
         /\ f.read = NULL /\ old.read # NULL /\ o.read = old.read
         /\ o # old
    /\ \E g \in pre.futures : \E other \in pre.overrides :
         /\ g.at > now /\ g.key = other.key
         /\ other \in overrides

(* ------------------------ claims on store errors ---------------------- *)

\* C13: when one of the four functions has raised out of its transaction, the
\* store is the store the call found, and prune_files has tried no unlink;
\* while a transaction is open, nothing it wrote is in the store, so the store
\* never holds the merged overrides next to the futures they came from.
C13_WritesAreAtomic ==
    /\ (pc = "returned" /\ done.raised) =>
          /\ Store = pre
          /\ ~InTx
          /\ done.op = "prune_files" =>
                /\ unlink_count = 0
                /\ rest = {}
                /\ failed \cup missing = {}
    /\ InTx => Store = pre

\* C13 witness: apply_permission_updates raised after its upsert had run on a
\* due future, and futures and overrides are those the call found.
C13_Witness ==
    /\ pc = "returned"
    /\ done.op = "apply_permission_updates"
    /\ done.raised
    /\ now > 0
    /\ \E f \in futures : f.at <= now
    /\ futures = pre.futures
    /\ overrides = pre.overrides

\* C13 witness for prune_files: the call raised after its select had found an
\* expired row; the row and its blob are still there.
C13_WitnessFiles ==
    /\ pc = "returned"
    /\ done.op = "prune_files"
    /\ done.raised
    /\ to_remove # {}
    /\ to_remove \subseteq blobs
    /\ \A p \in to_remove : \E f \in files : f.path = p /\ f.expiry < now

\* C14: under cleanup() no call ends with an error in its caller's hands: the
\* tick of a function that raised is over, with the function on record, and
\* cleanup() is idle or has been started again.
C14_NoErrorLeavesCleanup ==
    /\ pc # "returned"
    /\ ~done.raised
    /\ pc = "idle" <=> invoked = <<>>
    /\ last_tick.raised # "none" =>
          /\ last_tick.invoked # <<>>
          /\ last_tick.raised = last_tick.invoked[Len(last_tick.invoked)]

\* C14 witness: the last function of a tick raised, cleanup() returned, and
\* the next tick has started and is past prune_files.
C14_Witness ==
    /\ ctx = "tick"
    /\ last_tick.raised = "apply_permission_updates"
    /\ Len(last_tick.invoked) = Len(Order)
    /\ pc = "prune_message_history"
    /\ invoked = <<"prune_files", "prune_message_history">>

(* --------------------------- claims on retries ------------------------ *)

\* A row of files with path p and expiry < clock is in the store.
ExpiredFile(p) == \E f \in files : f.path = p /\ f.expiry < clock

\* A row of message_history with id i, older than the retention window.
OldHistory(i) ==
    \E r \in hist : r.id = i /\ r.replaced < HistCutoff(clock)

\* The row of room_users of k, older than the retention window.
OldActivity(k) ==
    \E a \in act : a.key = k /\ a.last_active < ActCutoff(clock)

\* The future of k scheduled for t, with t <= clock.
DueFuture(k, t) == t <= clock /\ \E f \in futures : f.key = k /\ f.at = t

\* C16: with a timer that does not stop and steps that succeed in the end,
\* every file row past its expiry, every history and activity row older than
\* its window and every future whose time has come leaves its table, whatever
\* ticks failed before.
C16_BacklogIsRetried ==
    /\ \A p \in Paths : ExpiredFile(p) ~> (\A f \in files : f.path # p)
    /\ \A i \in 1 .. MaxRecords : OldHistory(i) ~> (\A r \in hist : r.id # i)
    /\ \A k \in RoomUsers : OldActivity(k) ~> ~OldActivity(k)
    /\ \A k \in RoomUsers : \A t \in FutureTimes :
          DueFuture(k, t) ~> (\A f \in futures : ~(f.key = k /\ f.at = t))

\* C16 witness: the tick before this one failed in prune_files with a file
\* row in the store that was past its expiry from the start, and this tick has
\* deleted the row.
C16_Witness ==
    /\ ctx = "tick"
    /\ last_tick.raised = "prune_files"
    /\ pc = "pf_unlink"
    /\ \E d \in pruned : d.expiry < ClockBase /\ d.now = now
    /\ files = {}

(* ----------------------- claims on repeated calls --------------------- *)

\* C4: when one of the four functions is called again right after a call of it
\* that returned (nothing added to the store and the clock at the same reading
\* since that call began), the second call returns 0 and leaves the store as
\* it found it.
C4_SecondCallReturnsZero ==
    (pc = "returned" /\ again >= 0 /\ ~done.raised) =>
        /\ done.count = 0
        /\ Store = pre

\* C4 witness: prune_files returned a positive count, and the call that
\* followed it at once has returned.
C4_Witness ==
    /\ pc = "returned"
    /\ done.op = "prune_files"
    /\ ~done.raised
    /\ again > 0

\* The same case for the three other functions.
C4_WitnessHistory ==
    pc = "returned" /\ done.op = "prune_message_history" /\ ~done.raised /\ again > 0
C4_WitnessActivity ==
    pc = "returned" /\ done.op = "prune_room_activity" /\ ~done.raised /\ again > 0
C4_WitnessPermissions ==
    pc = "returned" /\ done.op = "apply_permission_updates" /\ ~done.raised /\ again > 0

(* --------------------------- claims on cleanup ------------------------ *)

\* The first n functions of the fixed order.
FirstCalls(n) == SubSeq(Order, 1, n)

\* C7: a tick calls the functions in the fixed order; when one raises, the tick
\* ends with the later ones not called; and a tick that follows, whatever the
\* tick before it did, starts again at prune_files and calls all four unless
\* one of them raises.
C7_TickFailureIsolation ==
    /\ last_tick.raised # "none" =>
           last_tick.invoked = FirstCalls(Position(last_tick.raised))
    /\ (last_tick.raised = "none" /\ last_tick # NoTick) => last_tick.invoked = Order
    /\ (ctx = "tick" /\ pc # "idle") =>
           /\ invoked # <<>>
           /\ invoked = FirstCalls(Len(invoked))
           /\ pc \in {"pf_delete", "pf_unlink"} => invoked = FirstCalls(1)
           /\ pc = "apu_delete" => invoked = Order
           /\ pc \in {"prune_files", "prune_message_history", "prune_room_activity",
                      "apply_permission_updates"} => invoked[Len(invoked)] = pc

\* C7 witness: prune_message_history raised in the last tick, which skipped the
\* two functions after it, and the tick after it has called all four.
C7_Witness ==
    /\ last_tick.raised = "prune_message_history"
    /\ last_tick.invoked = <<"prune_files", "prune_message_history">>
    /\ ctx = "tick"
    /\ pc = "apu_delete"
    /\ invoked = Order

====
